---------------------------- MODULE Spec2Model ----------------------------
(***************************************************************************)
(* A model of the P:E diet recipe calculator (src/src/main.rs): the        *)
(* ingredient ledger (the `ingredients` and `next_id` signals of App), the *)
(* recipe codec (encode_recipe, decode_recipe, load_recipe_from_url) and   *)
(* the effect that mirrors the ledger into the address-bar fragment.       *)
(*                                                                         *)
(* Text is a sequence of one-character strings, so that trimming, parsing  *)
(* and formatting are computed and not assumed.  An f64 quantity is an     *)
(* integer number of thousandths (1.5 is 1500); the texts and payload      *)
(* numbers of the model carry at most three fraction digits and no         *)
(* exponent, so every finite value met is such an integer.  A total, the   *)
(* sum of products of two quantities, is an integer number of millionths.  *)
(* usize is a scaled-down range 0..UsizeMax with the wrap-around of the    *)
(* real one.                                                               *)
(***************************************************************************)
EXTENDS Integers, Sequences, FiniteSets, TLC

VARIABLES
    ingredients,      \* the `ingredients` signal: Vec<Ingredient>
    next_id,          \* the `next_id` signal
    recipe_name,      \* the `recipe_name` signal
    hash,             \* window.location.hash
    history_len,      \* entries the page has added to the session history
    pc,               \* "mounted" (App built, effect not yet run), "ready", "panicked"
    totals,           \* the value of the `totals` memo: (protein, fat, net carbs)
    ratio,            \* the text the page shows as the recipe's P:E ratio
    used_ids,         \* history: every id a row has carried in this session
    edits,            \* history: number of text edits made so far
    last_op           \* history: the handler that ran last, and what it was given

vars == << ingredients, next_id, recipe_name, hash, history_len, pc,
           totals, ratio, used_ids, edits, last_op >>

---------------------------------------------------------------------------
(* Bounds of the model *)

\* usize::MAX of the model: ids and next_id range over 0..UsizeMax
UsizeMax == 2
\* add_ingredient is not offered once the ledger has this many rows
MaxRows == 2
\* the longest ingredient list of a payload found in the fragment at load
MaxPayloadRows == 2
\* text edits (ingredient fields and recipe name) per session
MaxEdits == 1
\* how often window.history may be unavailable when the effect has to write
MaxHistory == 1

Usize == 0..UsizeMax

---------------------------------------------------------------------------
(* Text *)

\* char::is_whitespace, over the characters of the model
IsWhitespace(c) == c \in {" ", "\t", "\n"}

\* the positions of s that hold no whitespace
Inked(s) == {i \in 1..Len(s) : ~IsWhitespace(s[i])}

\* str::trim: from the first character that is no whitespace to the last
trim(s) ==
    IF Inked(s) = {} THEN << >>
    ELSE SubSeq(s, CHOOSE i \in Inked(s) : \A j \in Inked(s) : i <= j,
                   CHOOSE i \in Inked(s) : \A j \in Inked(s) : j <= i)

Digits == << "0", "1", "2", "3", "4", "5", "6", "7", "8", "9" >>

IsDigit(c) == c \in {"0", "1", "2", "3", "4", "5", "6", "7", "8", "9"}

DigitVal(c) == (CHOOSE d \in 1..10 : Digits[d] = c) - 1

AllDigits(s) == \A i \in 1..Len(s) : IsDigit(s[i])

\* the value of the first n digits of a digit string
RECURSIVE PrefixToNat(_, _)
PrefixToNat(s, n) ==
    IF n = 0 THEN 0 ELSE 10 * PrefixToNat(s, n - 1) + DigitVal(s[n])

\* the value of a digit string (0 for the empty one)
DigitsToNat(s) == PrefixToNat(s, Len(s))

RECURSIVE NatToDigits(_)
NatToDigits(n) ==
    IF n < 10 THEN << Digits[n + 1] >>
    ELSE NatToDigits(n \div 10) \o << Digits[(n % 10) + 1] >>

\* ASCII lower case of the letters that spell inf, infinity and nan
ToLower(c) ==
    CASE c = "I" -> "i" [] c = "N" -> "n" [] c = "F" -> "f" [] c = "A" -> "a"
      [] c = "T" -> "t" [] c = "Y" -> "y" [] OTHER -> c

LowerText(s) == [i \in 1..Len(s) |-> ToLower(s[i])]

---------------------------------------------------------------------------
(* f64: parsing and formatting *)

\* a binary64 value: a finite number of thousandths, a NaN or an infinity
Finite(m) == [kind |-> "finite", v |-> m]
NaN == [kind |-> "nan", v |-> 0]
Infinity == [kind |-> "inf", v |-> 1]
NegInfinity == [kind |-> "inf", v |-> -1]

Ok(x) == [ok |-> TRUE, val |-> x]
Err == [ok |-> FALSE, val |-> Finite(0)]

\* the thousandths written by the fraction digits of a number
FracMilli(frac) == DigitsToNat(SubSeq(frac \o << "0", "0", "0" >>, 1, 3))

\* the number with integer digits int and fraction digits frac; one of the
\* two may be empty, not both
DecimalOf(int, frac) ==
    IF AllDigits(int) /\ AllDigits(frac) /\ Len(int) + Len(frac) >= 1
    THEN Ok(Finite(1000 * DigitsToNat(int) + FracMilli(frac)))
    ELSE Err

DotCount(s) == Cardinality({i \in 1..Len(s) : s[i] = "."})

DotIndex(s) == CHOOSE i \in 1..Len(s) : s[i] = "."

\* <f64 as FromStr>::from_str on an unsigned decimal without exponent:
\* Digit+ | Digit+ '.' Digit* | Digit* '.' Digit+
ParseDecimal(s) ==
    IF DotCount(s) > 1 THEN Err
    ELSE IF DotCount(s) = 0 THEN DecimalOf(s, << >>)
    ELSE DecimalOf(SubSeq(s, 1, DotIndex(s) - 1), SubSeq(s, DotIndex(s) + 1, Len(s)))

\* inf, infinity or nan in any case, or a decimal number
ParseUnsigned(s) ==
    IF LowerText(s) \in { << "i", "n", "f" >>,
                          << "i", "n", "f", "i", "n", "i", "t", "y" >> }
    THEN Ok(Infinity)
    ELSE IF LowerText(s) = << "n", "a", "n" >> THEN Ok(NaN)
    ELSE ParseDecimal(s)

Negated(r) ==
    IF ~r.ok THEN r
    ELSE IF r.val.kind = "finite" THEN Ok(Finite(0 - r.val.v))
    ELSE IF r.val.kind = "inf" THEN Ok(NegInfinity)
    ELSE r

\* <f64 as FromStr>::from_str: an optional sign, then the number
ParseF64(s) ==
    IF s = << >> THEN Err
    ELSE IF Head(s) = "-" THEN Negated(ParseUnsigned(Tail(s)))
    ELSE IF Head(s) = "+" THEN ParseUnsigned(Tail(s))
    ELSE ParseUnsigned(s)

\* a halfway value x.xx5 is stored as the nearest binary64, and {:.2} rounds
\* what is stored.  Of the halfway values the texts and payloads of the
\* model can hold (0.005, 1.005), these are stored above the decimal:
Binary64Above == {5}

\* whether {:.2} rounds the magnitude m (thousandths) up to the next hundredth
RoundsUp(m) ==
    LET r == m % 10
    IN  IF r # 5 THEN r > 5
        ELSE IF m % 125 = 0 THEN (m \div 10) % 2 = 1
        ELSE m \in Binary64Above

\* format!("{value:.2}") of a finite value
FormatFixed2(m) ==
    LET mag == IF m < 0 THEN 0 - m ELSE m
        centi == (mag \div 10) + (IF RoundsUp(mag) THEN 1 ELSE 0)
        cents == centi % 100
    IN  (IF m < 0 THEN << "-" >> ELSE << >>)
        \o NatToDigits(centi \div 100) \o << "." >>
        \o << Digits[(cents \div 10) + 1], Digits[(cents % 10) + 1] >>

\* f64::abs(value) < 0.005: 0.005 itself is stored above 0.005
AbsBelowHalfCent(m) == m < 5 /\ m > -5

\* sanitize_quantity without the max(0.0)
sanitize_quantity_unclamped(value) ==
    IF value.kind = "finite" THEN value.v ELSE 0

sanitize_quantity(value) ==
    IF value.kind = "finite"
    THEN (IF value.v > 0 THEN value.v ELSE 0)
    ELSE 0

\* Result::unwrap_or
unwrap_or(r, default) == IF r.ok THEN r.val ELSE default

\* the one element of a singleton set: { F(x) : x \in {e} } computes e once
\* and hands its value to F
Only(S) == CHOOSE x \in S : TRUE

parse_quantity(raw) ==
    Only({ sanitize_quantity(unwrap_or(parsed, Finite(0))) :
             parsed \in { ParseF64(trimmed) : trimmed \in {trim(raw)} } })

\* format_input_value blanking what is below 0.05, not 0.005
format_input_value_wide(value) ==
    IF value < 50 /\ value > -50 THEN << >> ELSE FormatFixed2(value)

format_input_value(value) ==
    IF AbsBelowHalfCent(value) THEN << >> ELSE FormatFixed2(value)

---------------------------------------------------------------------------
(* f64: the ratio *)

\* k times 2^-1023, for k >= 1: Tiny(1) is subnormal, Tiny(2) is
\* f64::MIN_POSITIVE (2^-1022), Tiny(3) the next multiple above it.  Sums and
\* quotients of these are exact.
Tiny(k) == [kind |-> "tiny", v |-> k]

\* a + b.  A finite value that is not 0 is a whole number of millionths (or
\* thousandths) and absorbs a Tiny one.
AddF64(a, b) ==
    IF a.kind = "nan" \/ b.kind = "nan" THEN NaN
    ELSE IF a.kind = "inf" /\ b.kind = "inf" THEN (IF a.v = b.v THEN a ELSE NaN)
    ELSE IF a.kind = "inf" THEN a
    ELSE IF b.kind = "inf" THEN b
    ELSE IF a.kind = "tiny" /\ b.kind = "tiny" THEN Tiny(a.v + b.v)
    ELSE IF a.kind = "tiny" THEN (IF b.v = 0 THEN a ELSE b)
    ELSE IF b.kind = "tiny" THEN (IF a.v = 0 THEN b ELSE a)
    ELSE Finite(a.v + b.v)

\* x <= f64::MIN_POSITIVE
AtMostMinPositive(x) ==
    CASE x.kind = "nan" -> FALSE
      [] x.kind = "inf" -> x.v < 0
      [] x.kind = "tiny" -> x.v <= 2
      [] x.kind = "finite" -> x.v <= 0

\* format!("{:.2}", p / e) for integers p and e > 0 of one unit, by long
\* division.  A quotient halfway between two hundredths is rounded as the
\* binary64 nearest to it, which is the quotient the machine computes when
\* p and e are whole grams; no totals the ledger of the model reaches have
\* a quotient that lies halfway.
FormatQuotient2(p, e) ==
    LET mag == IF p < 0 THEN 0 - p ELSE p
        d1 == (10 * (mag % e)) \div e
        r1 == (10 * (mag % e)) % e
        d2 == (10 * r1) \div e
        r2 == (10 * r1) % e
        low == 100 * (mag \div e) + 10 * d1 + d2
        up == IF 2 * r2 = e THEN RoundsUp(10 * low + 5) ELSE 2 * r2 > e
        centi == low + (IF up THEN 1 ELSE 0)
        cents == centi % 100
    IN  (IF p < 0 THEN << "-" >> ELSE << >>)
        \o NatToDigits(centi \div 100) \o << "." >>
        \o << Digits[(cents \div 10) + 1], Digits[(cents % 10) + 1] >>

ZeroText == << "0", ".", "0", "0" >>
NaNText == << "N", "a", "N" >>
InfText(sign) == (IF sign < 0 THEN << "-" >> ELSE << >>) \o << "i", "n", "f" >>

\* format!("{:.2}", p / e) for an e above f64::MIN_POSITIVE.  A finite p
\* that is not 0 over a Tiny e is a number of some 300 digits, which the
\* model does not write out: the operator has no value there.
FormatRatio2(p, e) ==
    CASE p.kind = "nan" \/ e.kind = "nan" -> NaNText
      [] p.kind = "inf" /\ e.kind = "inf" -> NaNText
      [] p.kind = "inf" /\ e.kind \in {"finite", "tiny"} -> InfText(p.v)
      [] p.kind = "finite" /\ e.kind = "inf" ->
            (IF p.v < 0 THEN << "-" >> ELSE << >>) \o ZeroText
      [] p.kind = "tiny" /\ e.kind \in {"inf", "finite"} -> ZeroText
      [] p.kind = "tiny" /\ e.kind = "tiny" -> FormatQuotient2(p.v, e.v)
      [] p.kind = "finite" /\ e.kind = "finite" -> FormatQuotient2(p.v, e.v)
      [] p.kind = "finite" /\ p.v = 0 /\ e.kind = "tiny" -> ZeroText

\* the text of one character, the em dash U+2014, written here by its name
Sentinel == << "EM DASH" >>

\* x <= 0.0
AtMostZero(x) ==
    CASE x.kind = "nan" -> FALSE
      [] x.kind = "inf" -> x.v < 0
      [] x.kind = "tiny" -> FALSE
      [] x.kind = "finite" -> x.v <= 0

\* format_ratio with 0.0 in the place of f64::MIN_POSITIVE
format_ratio_zero_threshold(t) ==
    IF AtMostZero(AddF64(t[2], t[3])) THEN Sentinel
    ELSE FormatRatio2(t[1], AddF64(t[2], t[3]))

format_ratio(t) ==
    Only({ IF AtMostMinPositive(energy) THEN Sentinel
           ELSE FormatRatio2(t[1], energy) :
             energy \in {AddF64(t[2], t[3])} })

---------------------------------------------------------------------------
(* The ledger's records *)

Ingredient(id, name, protein, fat, net_carbs, servings) ==
    [id |-> id, name |-> name, protein |-> protein, fat |-> fat,
     net_carbs |-> net_carbs, servings |-> servings]

\* Ingredient::empty
empty(id) == Ingredient(id, << >>, << >>, << >>, << >>, << "1" >>)

None == [some |-> FALSE, v |-> << >>]
Some(x) == [some |-> TRUE, v |-> x]

IngredientPayload(id, name, protein, fat, net_carbs, servings) ==
    [id |-> id, name |-> name, protein |-> protein, fat |-> fat,
     net_carbs |-> net_carbs, servings |-> servings]

RecipePayload(name, items) == [name |-> name, ingredients |-> items]

---------------------------------------------------------------------------
(* Inputs of the model *)

\* what a user types into a quantity field
QuantityTexts ==
    { << >>,
      << " ", "0", ".", "0", "2", " " >>,
      << "-", "3" >>,
      << "a", "b", "c" >>,
      << "0", ".", "0", "0", "4" >>,
      << "1", ".", "0", "0", "5" >>,
      << "i", "n", "f" >> }

\* what a user types into an ingredient's name field
IngredientNames == { << >>, << "e", "g", "g" >> }

\* what a user types into the recipe-name field
RecipeNames ==
    { << >>, << " ", " " >>, << "s", "o", "u", "p" >>,
      << " ", "s", "o", "u", "p", " " >> }

Fields == {"name", "protein", "fat", "net_carbs", "servings"}

FieldTexts(field) == IF field = "name" THEN IngredientNames ELSE QuantityTexts

\* the name and numbers (thousandths) of the ingredients of a payload that
\* arrives in the fragment; the id is any usize
PayloadSamples ==
    { [name |-> << "e", "g", "g" >>, protein |-> 20000, fat |-> 5000,
       net_carbs |-> 2000, servings |-> 1000],
      [name |-> << " " >>, protein |-> -3000, fat |-> 5, net_carbs |-> 4,
       servings |-> 0] }

\* every text a quantity field of the model can hold: what is typed, the
\* "1" of an empty row, what a payload's numbers are formatted to at load,
\* and what those texts are formatted to when they are encoded and loaded
TypedOrLoaded ==
    QuantityTexts \cup { << "1" >> }
    \cup { format_input_value(q) :
            q \in UNION { {s.protein, s.fat, s.net_carbs, s.servings} :
                            s \in PayloadSamples } }

KnownTexts ==
    TypedOrLoaded
    \cup { format_input_value(q) : q \in { parse_quantity(t) : t \in TypedOrLoaded } }

\* parse_quantity, computed once for each of those texts
QuantityTable == [t \in KnownTexts |-> parse_quantity(t)]

Quantity(raw) == QuantityTable[raw]

\* the `totals` memo: the loop over the rows, from (0.0, 0.0, 0.0)
RECURSIVE totals_loop(_, _, _)
totals_loop(items, n, acc) ==
    IF n > Len(items) THEN acc
    ELSE totals_loop(items, n + 1,
            << acc[1] + Quantity(items[n].protein) * Quantity(items[n].servings),
               acc[2] + Quantity(items[n].fat) * Quantity(items[n].servings),
               acc[3] + Quantity(items[n].net_carbs) * Quantity(items[n].servings) >>)

\* the memo that leaves the servings out of the products
totals_memo_per_serving(items) ==
    [k \in 1..3 |-> Finite(totals_loop(
        [i \in 1..Len(items) |-> [items[i] EXCEPT !.servings = << "1" >>]],
        1, << 0, 0, 0 >>)[k])]

\* the value of the memo for the rows in the signal, in millionths
totals_memo(items) ==
    [k \in 1..3 |-> Finite(totals_loop(items, 1, << 0, 0, 0 >>)[k])]

---------------------------------------------------------------------------
(* The recipe codec *)

\* A token is what it decodes to: whether it is base64url text, whether its
\* bytes are the JSON of a RecipePayload, whether those bytes are the very
\* ones serde_json writes for that payload (another spelling of the same
\* payload is another token), and the payload.
Token(payload, canonical) ==
    [base64 |-> TRUE, json |-> TRUE, canonical |-> canonical, payload |-> payload]

\* a token that is no base64url text
BadBase64Token ==
    [base64 |-> FALSE, json |-> FALSE, canonical |-> FALSE,
     payload |-> RecipePayload(None, << >>)]

\* base64url text whose bytes are not the JSON of a RecipePayload (the empty
\* token, a missing field, an id beyond usize::MAX, ...)
BadJsonToken ==
    [base64 |-> TRUE, json |-> FALSE, canonical |-> FALSE,
     payload |-> RecipePayload(None, << >>)]

SomeToken(t) == [some |-> TRUE, v |-> t]

NoPayload == [some |-> FALSE, v |-> RecipePayload(None, << >>)]
SomePayload(p) == [some |-> TRUE, v |-> p]

\* encode_recipe putting the name as typed, not the trimmed one, in the payload
encode_recipe_untrimmed(items, name) ==
    SomeToken(Token(
        RecipePayload(
            IF trim(name) = << >> THEN None ELSE Some(name),
            [i \in 1..Len(items) |->
                IngredientPayload(items[i].id, items[i].name,
                    Quantity(items[i].protein), Quantity(items[i].fat),
                    Quantity(items[i].net_carbs), Quantity(items[i].servings))]),
        TRUE))

encode_recipe(items, name) ==
    LET trimmed_name == trim(name)
        payload ==
            RecipePayload(
                IF trimmed_name = << >> THEN None ELSE Some(trimmed_name),
                [i \in 1..Len(items) |->
                    IngredientPayload(items[i].id, items[i].name,
                        Quantity(items[i].protein),
                        Quantity(items[i].fat),
                        Quantity(items[i].net_carbs),
                        Quantity(items[i].servings))])
    IN  SomeToken(Token(payload, TRUE))

decode_recipe(encoded) ==
    IF ~encoded.base64 THEN NoPayload
    ELSE IF ~encoded.json THEN NoPayload
    ELSE SomePayload(encoded.payload)

\* the From impl with the protein and fat of the payload exchanged
IngredientFrom_exchanged(payload) ==
    Ingredient(payload.id, payload.name,
        format_input_value(payload.fat),
        format_input_value(payload.protein),
        format_input_value(payload.net_carbs),
        format_input_value(payload.servings))

\* impl From<IngredientPayload> for Ingredient
IngredientFrom(payload) ==
    Ingredient(payload.id, payload.name,
        format_input_value(payload.protein),
        format_input_value(payload.fat),
        format_input_value(payload.net_carbs),
        format_input_value(payload.servings))

\* location.hash: a head ("" for no fragment, "#recipe=", or any other
\* fragment) and, after "#recipe=", the token
EmptyHash == [head |-> "", token |-> BadJsonToken]
OtherHash == [head |-> "#about", token |-> BadJsonToken]
RecipeHash(t) == [head |-> "#recipe=", token |-> t]

NotLoaded == [some |-> FALSE, ingredients |-> << >>, name |-> << >>]

\* load_recipe_from_url without the row pushed into an empty list
load_recipe_no_fallback_row(h) ==
    IF h.head # "#recipe=" \/ ~decode_recipe(h.token).some THEN NotLoaded
    ELSE [some |-> TRUE,
          ingredients |-> [i \in 1..Len(h.token.payload.ingredients) |->
                              IngredientFrom(h.token.payload.ingredients[i])],
          name |-> IF h.token.payload.name.some THEN h.token.payload.name.v
                   ELSE << >>]

\* window() is Some wherever App runs (mount_to_body needs the document),
\* and location.hash() is readable.
load_recipe_from_url(h) ==
    IF h.head # "#recipe=" THEN NotLoaded
    ELSE
        LET payload == decode_recipe(h.token)
        IN  IF ~payload.some THEN NotLoaded
            ELSE
                LET mapped == [i \in 1..Len(payload.v.ingredients) |->
                                  IngredientFrom(payload.v.ingredients[i])]
                    items == IF mapped = << >> THEN << empty(0) >> ELSE mapped
                    name == IF payload.v.name.some THEN payload.v.name.v ELSE << >>
                IN  [some |-> TRUE, ingredients |-> items, name |-> name]

---------------------------------------------------------------------------
(* usize arithmetic *)

\* the outcomes of v + 1 on a usize: at usize::MAX a build with overflow
\* checks panics and a build without them wraps to 0
add_one(v) ==
    IF v = UsizeMax
    THEN { [panic |-> TRUE, val |-> v], [panic |-> FALSE, val |-> 0] }
    ELSE { [panic |-> FALSE, val |-> v + 1] }

Ids(items) == {items[i].id : i \in 1..Len(items)}

MaxOf(S) == CHOOSE m \in S : \A x \in S : x <= m

\* initial_next_id of App: max id + 1, or 1 for no rows
initial_next_id(items) ==
    IF Ids(items) = {} THEN { [panic |-> FALSE, val |-> 1] }
    ELSE add_one(MaxOf(Ids(items)))

---------------------------------------------------------------------------
(* What the page can be opened with *)

PayloadIngredients ==
    { IngredientPayload(i, s.name, s.protein, s.fat, s.net_carbs, s.servings) :
        i \in Usize, s \in PayloadSamples }

PayloadNames == { None, Some(<< "s", "o", "u", "p" >>) }

Payloads ==
    { RecipePayload(n, items) :
        n \in PayloadNames,
        items \in UNION { [1..k -> PayloadIngredients] : k \in 0..MaxPayloadRows } }

\* the fragment the page is opened with
InitialHashes ==
    { EmptyHash, OtherHash, RecipeHash(BadBase64Token), RecipeHash(BadJsonToken) }
    \cup { RecipeHash(Token(p, c)) : p \in Payloads, c \in BOOLEAN }

---------------------------------------------------------------------------
(* The handlers *)

\* the record of a handler's run: the handler, the id it was given (or
\* minted), the position of the card that called it (0 for none), the field
\* it was to change, how many rows there were and how many of them carried
\* the id, and what the effect then did to the fragment
Op(op, id, pos, field, len_before, hits) ==
    [op |-> op, id |-> id, pos |-> pos, field |-> field,
     len_before |-> len_before, hits |-> hits, sync |-> "none"]

Hits(items, id) == Cardinality({i \in 1..Len(items) : items[i].id = id})

\* sync_effect without the comparison with the fragment it finds
sync_effect_unconditional(encoded, h, history_ok) ==
    IF ~encoded.some THEN [hash |-> h, pushed |-> 0, via |-> "none"]
    ELSE IF history_ok
    THEN [hash |-> RecipeHash(encoded.v), pushed |-> 0, via |-> "replace_state"]
    ELSE [hash |-> RecipeHash(encoded.v), pushed |-> 1, via |-> "set_hash"]

\* the effect of App from the encoded recipe on: what it does to the
\* fragment h it finds, given whether window.history() is Ok
sync_effect(encoded, h, history_ok) ==
    IF ~encoded.some THEN [hash |-> h, pushed |-> 0, via |-> "none"]
    ELSE IF h # RecipeHash(encoded.v) THEN
        IF history_ok
        THEN [hash |-> RecipeHash(encoded.v), pushed |-> 0, via |-> "replace_state"]
        ELSE [hash |-> RecipeHash(encoded.v), pushed |-> 1, via |-> "set_hash"]
    ELSE [hash |-> h, pushed |-> 0, via |-> "none"]

\* the memo is recomputed when the `ingredients` signal is written, and the
\* page shows format_ratio of its value
Render ==
    \E t \in {totals_memo(ingredients')} :
        /\ totals' = t
        /\ ratio' = format_ratio(t)

\* the effect re-runs at the end of every handler that writes a signal it
\* reads; op is the handler's record
RunEffect(op) ==
    \E encoded \in {encode_recipe(ingredients', recipe_name')} :
        \E history_ok \in (IF history_len < MaxHistory THEN BOOLEAN ELSE {TRUE}) :
            \E r \in {sync_effect(encoded, hash, history_ok)} :
                /\ hash' = r.hash
                /\ history_len' = history_len + r.pushed
                /\ last_op' = [op EXCEPT !.sync = r.via]

\* the handler trapped on an overflow.  The signal it was updating stays
\* borrowed, so no later handler can mint an id or refill the ledger; what
\* the page can still do it could do before the trap.  The model ends the
\* session here, the signals keeping what the page last showed.
Panic(op) ==
    /\ pc' = "panicked"
    /\ last_op' = op
    /\ UNCHANGED << ingredients, next_id, recipe_name, hash, history_len,
                    totals, ratio, used_ids, edits >>

\* items.retain(|item| item.id != id)
retain(items, id) == SelectSeq(items, LAMBDA item : item.id # id)

\* after_remove without the refill of an emptied ledger
after_remove_no_refill(items, id, new_id) == retain(items, id)

\* the Vec that the closure of remove_ingredient leaves in the signal
after_remove(items, id, new_id) ==
    IF retain(items, id) = << >> THEN << empty(new_id) >> ELSE retain(items, id)

\* items.iter_mut().find(|item| item.id == id): the index found, 0 for None
find(items, id) ==
    IF id \in Ids(items)
    THEN CHOOSE i \in 1..Len(items) :
            /\ items[i].id = id
            /\ \A j \in 1..(i - 1) : items[j].id # id
    ELSE 0

\* the Vec that update_ingredient leaves in the signal
update_ingredient(items, id, field, value) ==
    LET i == find(items, id)
    IN  IF i # 0 THEN [items EXCEPT ![i][field] = value] ELSE items

\* App up to the creation of its signals
Init ==
    \E h \in InitialHashes :
        LET loaded == load_recipe_from_url(h)
            initial_ingredients ==
                IF loaded.some THEN loaded.ingredients ELSE << empty(0) >>
            initial_name == IF loaded.some THEN loaded.name ELSE << >>
        IN  \E next \in initial_next_id(initial_ingredients) :
            /\ hash = h
            /\ ingredients = initial_ingredients
            /\ recipe_name = initial_name
            /\ next_id = next.val
            /\ pc = IF next.panic THEN "panicked" ELSE "mounted"
            /\ history_len = 0
            /\ totals = totals_memo(initial_ingredients)
            /\ ratio = format_ratio(totals_memo(initial_ingredients))
            /\ used_ids = Ids(initial_ingredients)
            /\ edits = 0
            /\ last_op = Op("load", 0, 0, "", 0, 0)

\* the first run of the effect, before any event is handled
InitialEffect ==
    /\ pc = "mounted"
    /\ pc' = "ready"
    /\ UNCHANGED << ingredients, next_id, recipe_name, totals, ratio,
                    used_ids, edits >>
    /\ RunEffect(Op("effect", 0, 0, "", Len(ingredients), 0))

add_ingredient ==
    /\ pc = "ready"
    /\ Len(ingredients) < MaxRows
    /\ \E inc \in add_one(next_id) :
         LET id == next_id
             op == Op("add", id, 0, "", Len(ingredients), 0)
         IN  IF inc.panic THEN Panic(op)
             ELSE /\ next_id' = inc.val
                  /\ ingredients' = Append(ingredients, empty(id))
                  /\ used_ids' = used_ids \cup {id}
                  /\ UNCHANGED << recipe_name, pc, edits >>
                  /\ Render
                  /\ RunEffect(op)

remove_ingredient(id) ==
    /\ pc = "ready"
    /\ \E inc \in add_one(next_id) :
         LET new_id == next_id
             op == Op("remove", id, 0, "", Len(ingredients), Hits(ingredients, id))
         IN  IF retain(ingredients, id) = << >> THEN
                 IF inc.panic THEN Panic(op)
                 ELSE /\ next_id' = inc.val
                      /\ ingredients' = after_remove(ingredients, id, new_id)
                      /\ used_ids' = used_ids \cup {new_id}
                      /\ UNCHANGED << recipe_name, pc, edits >>
                      /\ Render
                      /\ RunEffect(op)
             ELSE /\ ingredients' = after_remove(ingredients, id, new_id)
                  /\ UNCHANGED << next_id, recipe_name, pc, used_ids, edits >>
                  /\ Render
                  /\ RunEffect(op)

\* an input of the card rendered for the row at pos: its closure holds that
\* row's id and calls update_ingredient with it
EditRow(pos, field, value) ==
    /\ pc = "ready"
    /\ edits < MaxEdits
    /\ pos \in 1..Len(ingredients)
    /\ ingredients' = update_ingredient(ingredients, ingredients[pos].id, field, value)
    /\ edits' = edits + 1
    /\ UNCHANGED << next_id, recipe_name, pc, used_ids >>
    /\ Render
    /\ RunEffect(Op("update", ingredients[pos].id, pos, field, Len(ingredients),
                    Hits(ingredients, ingredients[pos].id)))

\* update_ingredient called with an id that no row carries any more
StaleUpdate(id, field, value) ==
    /\ pc = "ready"
    /\ edits < MaxEdits
    /\ id \notin Ids(ingredients)
    /\ ingredients' = update_ingredient(ingredients, id, field, value)
    /\ edits' = edits + 1
    /\ UNCHANGED << next_id, recipe_name, pc, used_ids >>
    /\ Render
    /\ RunEffect(Op("update", id, 0, field, Len(ingredients), 0))

\* on:input of the recipe-name field
SetRecipeName(value) ==
    /\ pc = "ready"
    /\ edits < MaxEdits
    /\ recipe_name' = value
    /\ edits' = edits + 1
    /\ UNCHANGED << ingredients, next_id, pc, totals, ratio, used_ids >>
    /\ RunEffect(Op("set_name", 0, 0, "", Len(ingredients), 0))

Next ==
    \/ InitialEffect
    \/ add_ingredient
    \/ \E id \in Usize : remove_ingredient(id)
    \/ \E pos \in 1..MaxRows, field \in Fields :
          \E value \in FieldTexts(field) : EditRow(pos, field, value)
    \/ \E id \in Usize, field \in Fields :
          \E value \in FieldTexts(field) : StaleUpdate(id, field, value)
    \/ \E value \in RecipeNames : SetRecipeName(value)

Spec == Init /\ [][Next]_vars

---------------------------------------------------------------------------
(* The ledger *)

Running == pc # "panicked"

\* C1: while the page runs, the ledger holds at least one row: after the
\* load from any fragment and after any sequence of handlers.
C1_LedgerNeverEmpty == Running => Len(ingredients) >= 1

\* the last row was removed and the ledger refilled
C1_Witness ==
    /\ Running
    /\ last_op.op = "remove"
    /\ last_op.len_before >= 1
    /\ last_op.hits = last_op.len_before
    /\ Len(ingredients) = 1

\* C2: no two rows of the ledger carry the same id, in any state: after a
\* load from a token that decodes, after add_ingredient, after
\* remove_ingredient.
C2_IdsUnique ==
    \A i, j \in 1..Len(ingredients) :
        i # j => ingredients[i].id # ingredients[j].id

\* C3: remove_ingredient given the id of the only row of a one-row ledger
\* leaves exactly one row, which is empty and whose id no row has carried
\* before in the session (the ids seeded at load included).
C3_RemoveOnlyRowMintsFreshId ==
    [][ ( /\ last_op'.op = "remove"
          /\ pc' = "ready"
          /\ Len(ingredients) = 1
          /\ last_op'.id = ingredients[1].id )
        => ( /\ Len(ingredients') = 1
             /\ ingredients'[1] = empty(ingredients'[1].id)
             /\ ingredients'[1].id \notin used_ids ) ]_vars

\* items without the row at position k
RemoveAt(items, k) == SubSeq(items, 1, k - 1) \o SubSeq(items, k + 1, Len(items))

\* C4: remove_ingredient given an id that a row of a ledger of two or more
\* rows carries deletes that one row: the other rows stay, unchanged and in
\* order, and next_id is unchanged.
C4_RemoveDeletesOneRow ==
    [][ ( /\ last_op'.op = "remove"
          /\ pc' = "ready"
          /\ Len(ingredients) >= 2
          /\ last_op'.id \in Ids(ingredients) )
        => ( /\ \E k \in 1..Len(ingredients) :
                    /\ ingredients[k].id = last_op'.id
                    /\ ingredients' = RemoveAt(ingredients, k)
             /\ Len(ingredients') = Len(ingredients) - 1
             /\ next_id' = next_id ) ]_vars

\* C5: update_ingredient given an id that no row carries leaves the ledger
\* and next_id as they were; called by the card of a row, with that row's id,
\* it changes nothing but the one field of that row.
C5_UpdateChangesOnlyAddressedField ==
    [][ last_op'.op = "update"
        => ( /\ next_id' = next_id
             /\ Len(ingredients') = Len(ingredients)
             /\ \A i \in 1..Len(ingredients) :
                    \A f \in Fields \cup {"id"} :
                        (i # last_op'.pos \/ f # last_op'.field)
                            => ingredients'[i][f] = ingredients[i][f] ) ]_vars

---------------------------------------------------------------------------
(* The codec *)

QuantityFields == {"protein", "fat", "net_carbs", "servings"}

\* 0.005, in thousandths
HalfCent == 5

AbsDiff(a, b) == IF a < b THEN b - a ELSE a - b

\* what opening the link made of the ledger and name gives
RoundTrip(items, name) ==
    load_recipe_from_url(RecipeHash(encode_recipe(items, name).v))

\* C6: decoding the token of the ledger gives as many rows in the same
\* order, with the same ids and ingredient names, and every quantity field
\* parses to a whole number of hundredths within 0.005 of what the original
\* text parses to.
C6_QuantitiesRoundTrip ==
    LET back == RoundTrip(ingredients, recipe_name)
    IN  /\ back.some
        /\ Len(back.ingredients) = Len(ingredients)
        /\ \A i \in 1..Len(ingredients) :
              /\ back.ingredients[i].id = ingredients[i].id
              /\ back.ingredients[i].name = ingredients[i].name
              /\ \A f \in QuantityFields :
                    /\ parse_quantity(back.ingredients[i][f]) % 10 = 0
                    /\ AbsDiff(parse_quantity(back.ingredients[i][f]),
                               parse_quantity(ingredients[i][f])) <= HalfCent

\* a field holds 1.005 as typed and comes back as 1.00
C6_Witness ==
    \E i \in 1..Len(ingredients) :
        /\ last_op.op = "update"
        /\ ingredients[i].protein = << "1", ".", "0", "0", "5" >>
        /\ RoundTrip(ingredients, recipe_name).ingredients[i].protein
              = << "1", ".", "0", "0" >>

\* C7 as amended: the name comes back trimmed of the whitespace around it
\* (as typed when it has none, empty when it is empty or all whitespace),
\* and the payload holds no name exactly when the trimmed name is empty.
C7_NameRoundTripsTrimmed ==
    /\ RoundTrip(ingredients, recipe_name).name = trim(recipe_name)
    /\ encode_recipe(ingredients, recipe_name).v.payload.name.some
          <=> (trim(recipe_name) # << >>)

\* a name with whitespace around it was typed and encoded
C7_Witness ==
    /\ last_op.op = "set_name"
    /\ recipe_name = << " ", "s", "o", "u", "p", " " >>
    /\ RoundTrip(ingredients, recipe_name).name = << "s", "o", "u", "p" >>

\* C7 as claimed: a name that is empty or all whitespace comes back empty,
\* with no name in the payload, and any other name comes back as typed.
C7_NameRoundTripsExactly ==
    IF trim(recipe_name) = << >>
    THEN /\ RoundTrip(ingredients, recipe_name).name = << >>
         /\ ~encode_recipe(ingredients, recipe_name).v.payload.name.some
    ELSE RoundTrip(ingredients, recipe_name).name = recipe_name

\* the fragment is absent, is no "#recipe=<token>", or its token is no
\* base64url text or no payload
NothingToLoad(h) == h.head # "#recipe=" \/ ~h.token.base64 \/ ~h.token.json

\* C8: at load, with nothing to load the page starts, with the ledger of one
\* empty row of id 0 and an empty recipe name; with a payload of no
\* ingredients it starts with the ledger of one empty row of id 0.
C8_LoadFallsBack ==
    last_op.op = "load" =>
        /\ NothingToLoad(hash) =>
              /\ Running
              /\ ingredients = << empty(0) >>
              /\ recipe_name = << >>
        /\ (~NothingToLoad(hash) /\ hash.token.payload.ingredients = << >>) =>
              /\ Running
              /\ ingredients = << empty(0) >>

\* the page was opened with "#recipe=" and a token that is no base64url text
C8_Witness ==
    /\ last_op.op = "load"
    /\ hash = RecipeHash(BadBase64Token)
    /\ ingredients = << empty(0) >>
    /\ pc = "mounted"

---------------------------------------------------------------------------
(* The effect *)

\* C9: once the effect has run after a load or a handler, the fragment is
\* "#recipe=" and the token of the ledger and name; and the effect writes
\* the fragment only when the one it finds is not that.
C9_FragmentFollowsLedger ==
    /\ [](pc = "ready" =>
            /\ encode_recipe(ingredients, recipe_name).some
            /\ hash = RecipeHash(encode_recipe(ingredients, recipe_name).v))
    /\ [][ last_op'.sync \in {"replace_state", "set_hash"}
           => hash # RecipeHash(encode_recipe(ingredients', recipe_name').v) ]_vars

\* an edit of a field made the effect rewrite the fragment
C9_Witness ==
    /\ pc = "ready"
    /\ last_op.op = "update"
    /\ last_op.sync = "replace_state"
    /\ hash = RecipeHash(encode_recipe(ingredients, recipe_name).v)

\* C10: the page adds no entry to the session history, whatever the effect
\* writes and by whichever of its paths.
C10_NoHistoryEntryAdded == history_len = 0

---------------------------------------------------------------------------
(* Quantities and totals *)

\* texts with the number they are read as by hand (thousandths): 0 for what
\* is no decimal number, for a negative number, for NaN and the infinities
ParseSamples ==
    { [text |-> << >>,                               expect |-> 0],
      [text |-> << " ", " " >>,                      expect |-> 0],
      [text |-> << "a", "b", "c" >>,                 expect |-> 0],
      [text |-> << "1", ".", "2", ".", "3" >>,       expect |-> 0],
      [text |-> << "1", " ", "2" >>,                 expect |-> 0],
      [text |-> << "." >>,                           expect |-> 0],
      [text |-> << "-" >>,                           expect |-> 0],
      [text |-> << "-", "3" >>,                      expect |-> 0],
      [text |-> << "-", "0", ".", "5" >>,            expect |-> 0],
      [text |-> << "n", "a", "n" >>,                 expect |-> 0],
      [text |-> << "N", "a", "N" >>,                 expect |-> 0],
      [text |-> << "i", "n", "f" >>,                 expect |-> 0],
      [text |-> << "-", "i", "n", "f" >>,            expect |-> 0],
      [text |-> << "i", "n", "f", "i", "n", "i", "t", "y" >>, expect |-> 0],
      [text |-> << "0" >>,                           expect |-> 0],
      [text |-> << "-", "0" >>,                      expect |-> 0],
      [text |-> << "2", ".", "5" >>,                 expect |-> 2500],
      [text |-> << "\t", "2", ".", "5", "\n" >>,     expect |-> 2500],
      [text |-> << "+", "1", ".", "5" >>,            expect |-> 1500],
      [text |-> << ".", "5" >>,                      expect |-> 500],
      [text |-> << "5", "." >>,                      expect |-> 5000],
      [text |-> << "0", "0", "7" >>,                 expect |-> 7000],
      [text |-> << "1", "2", ".", "3", "4", "5" >>,  expect |-> 12345] }

\* parse_quantity reads every sample as the number written beside it
SamplesParseAsExpected ==
    \A sample \in ParseSamples : parse_quantity(sample.text) = sample.expect

\* parse_quantity(t) is a number >= 0: the number the trimmed text parses to
\* when that is finite and not negative, and 0 in every other case
QuantityContract(t) ==
    /\ parse_quantity(t) \in Nat
    /\ \E parsed \in {ParseF64(trim(t))} :
          parse_quantity(t) =
              IF parsed.ok /\ parsed.val.kind = "finite" /\ parsed.val.v >= 0
              THEN parsed.val.v
              ELSE 0

\* C11: parse_quantity of any text is a finite number >= 0 and never fails:
\* text that is no decimal number, a negative number, NaN and the infinities
\* give 0, and a finite number that is not negative is returned unchanged.
\* Stated of the hand-read samples and of every quantity field of the ledger.
C11_ParseQuantityIsFiniteNonNegative ==
    /\ SamplesParseAsExpected
    /\ \A i \in 1..Len(ingredients) : \A f \in QuantityFields :
          QuantityContract(ingredients[i][f])

\* a negative number was typed into a quantity field and is read as 0
C11_Witness ==
    \E i \in 1..Len(ingredients) :
        /\ last_op.op = "update"
        /\ last_op.field = "fat"
        /\ ingredients[i].fat = << "-", "3" >>
        /\ parse_quantity(ingredients[i].fat) = 0


\* the sum, over the first n rows, of the field's quantity times the row's
\* servings (millionths)
RECURSIVE SumOfRows(_, _, _)
SumOfRows(items, f, n) ==
    IF n = 0 THEN 0
    ELSE SumOfRows(items, f, n - 1)
         + parse_quantity(items[n][f]) * parse_quantity(items[n].servings)

\* C13: in every state, so after every load and every completed handler, the
\* totals the page holds are the sums over the rows of the ledger as it is
\* now of quantity times servings, for protein, fat and net carbs: never
\* those of an earlier ledger.
C13_TotalsFollowLedger ==
    totals = << Finite(SumOfRows(ingredients, "protein", Len(ingredients))),
                Finite(SumOfRows(ingredients, "fat", Len(ingredients))),
                Finite(SumOfRows(ingredients, "net_carbs", Len(ingredients))) >>

\* the servings of a loaded row (20 g protein, 5 g fat, 2 g net carbs) were
\* edited to 0.02 and the totals are those of 0.02 servings
C13_Witness ==
    /\ last_op.op = "update"
    /\ last_op.field = "servings"
    /\ Len(ingredients) = 1
    /\ ingredients[1].servings = << " ", "0", ".", "0", "2", " " >>
    /\ totals = << Finite(400000), Finite(100000), Finite(40000) >>

\* n grams, as a total (millionths)
Grams(n) == Finite(1000000 * n)

RatioText(whole, tenths, hundredths) ==
    << Digits[whole + 1], ".", Digits[tenths + 1], Digits[hundredths + 1] >>

\* totals with the text worked out by hand for protein / (fat + net carbs)
\* to two decimals, the sentinel where the energy is at most 2^-1022.
\* 1/8 and 3/8 are exact and round to the even hundredth; 1/200 is stored
\* above 0.005.
RatioSamples ==
    { [t |-> << Grams(20), Grams(5), Grams(2) >>,       expect |-> RatioText(2, 8, 6)],
      [t |-> << Grams(20), Grams(0), Grams(0) >>,       expect |-> Sentinel],
      [t |-> << Grams(0), Grams(0), Grams(0) >>,        expect |-> Sentinel],
      [t |-> << Grams(10), Grams(-5), Grams(2) >>,      expect |-> Sentinel],
      [t |-> << Grams(10), Grams(-2), Grams(2) >>,      expect |-> Sentinel],
      [t |-> << Grams(20), NegInfinity, Grams(2) >>,    expect |-> Sentinel],
      [t |-> << Grams(0), Grams(5), Grams(2) >>,        expect |-> RatioText(0, 0, 0)],
      [t |-> << Grams(20), Grams(1), Grams(2) >>,       expect |-> RatioText(6, 6, 7)],
      [t |-> << Grams(1), Grams(8), Grams(0) >>,        expect |-> RatioText(0, 1, 2)],
      [t |-> << Grams(3), Grams(4), Grams(4) >>,        expect |-> RatioText(0, 3, 8)],
      [t |-> << Grams(1), Grams(100), Grams(100) >>,    expect |-> RatioText(0, 0, 1)],
      [t |-> << Grams(-20), Grams(5), Grams(2) >>,      expect |-> << "-" >> \o RatioText(2, 8, 6)],
      [t |-> << Grams(20), Infinity, Grams(2) >>,       expect |-> RatioText(0, 0, 0)],
      [t |-> << Infinity, Grams(5), Grams(2) >>,        expect |-> << "i", "n", "f" >>],
      [t |-> << NaN, Grams(5), Grams(2) >>,             expect |-> << "N", "a", "N" >>],
      [t |-> << Grams(20), NaN, Grams(2) >>,            expect |-> << "N", "a", "N" >>],
      [t |-> << Grams(20), Infinity, NegInfinity >>,    expect |-> << "N", "a", "N" >>],
      [t |-> << Grams(0), Tiny(1), Grams(0) >>,         expect |-> Sentinel],
      [t |-> << Grams(0), Tiny(2), Grams(0) >>,         expect |-> Sentinel],
      [t |-> << Tiny(1), Tiny(1), Tiny(1) >>,           expect |-> Sentinel],
      [t |-> << Grams(0), Tiny(3), Grams(0) >>,         expect |-> RatioText(0, 0, 0)],
      [t |-> << Tiny(3), Tiny(2), Tiny(2) >>,           expect |-> RatioText(0, 7, 5)] }

\* a text of digits, a point and two digits
TwoDecimals(text) ==
    /\ Len(text) >= 4
    /\ text[Len(text) - 2] = "."
    /\ \A i \in 1..Len(text) : i # Len(text) - 2 => IsDigit(text[i])

\* whether c hundredths is within half a hundredth of p / e, for p >= 0, e > 0
WithinHalfCent(c, p, e) ==
    /\ c - 100 * (p \div e) \in 0..100
    /\ AbsDiff(100 * (p % e), (c - 100 * (p \div e)) * e) <= e \div 2

\* the hundredths a two-decimal text writes
CentsOf(text) == DigitsToNat(SelectSeq(text, IsDigit))

\* C12 as amended: format_ratio gives the sentinel exactly when fat + net
\* carbs is at most the smallest positive normal f64 (2^-1022), which every
\* energy <= 0 is, and else protein / (fat + net carbs) to two decimals.
\* Stated of the hand-worked samples, (20, 5, 2) and (20, 0, 0) among them,
\* and of the ratio the page shows for its totals.
C12_RatioSentinelAtMostMinPositive ==
    /\ \A sample \in RatioSamples : format_ratio(sample.t) = sample.expect
    /\ \A sample \in RatioSamples :
          (format_ratio(sample.t) = Sentinel)
              <=> AtMostMinPositive(AddF64(sample.t[2], sample.t[3]))
    /\ IF totals[2].v + totals[3].v <= 0 THEN ratio = Sentinel
       ELSE /\ TwoDecimals(ratio)
            /\ WithinHalfCent(CentsOf(ratio), totals[1].v,
                              totals[2].v + totals[3].v)

\* the page shows 2.86 for totals of 20 g protein, 5 g fat, 2 g net carbs
C12_Witness ==
    /\ pc = "ready"
    /\ totals = << Grams(20), Grams(5), Grams(2) >>
    /\ ratio = RatioText(2, 8, 6)
    /\ format_ratio(<< Grams(20), Grams(0), Grams(0) >>) = Sentinel

\* C12 as claimed: format_ratio gives the sentinel when fat + net carbs <= 0
\* and the ratio to two decimals, not the sentinel, for every other energy.
C12_RatioSentinelAtMostZero ==
    /\ \A sample \in RatioSamples :
          (format_ratio(sample.t) = Sentinel)
              <=> AtMostZero(AddF64(sample.t[2], sample.t[3]))
    /\ (ratio = Sentinel) <=> (totals[2].v + totals[3].v <= 0)

---------------------------------------------------------------------------
(* The id counter *)

\* C14: while the page runs, next_id is greater than the id of every row of
\* the ledger, so that an id minted by add_ingredient or by the refill of
\* remove_ingredient is greater than every id present.
C14_NextIdAboveAllIds ==
    Running => \A i \in 1..Len(ingredients) : ingredients[i].id < next_id

---------------------------------------------------------------------------
(* The round trip, twice *)

\* C15: the ledger and name that decoding the token of the ledger gives are
\* left as they are by another round trip: the same rows in the same order,
\* with the same ids, names and quantity texts, and the same recipe name.
C15_RoundTripIdempotent ==
    \E once \in {RoundTrip(ingredients, recipe_name)} :
        /\ once.some
        /\ RoundTrip(once.ingredients, once.name) = once

\* the first round trip changed a quantity text (the servings 1 of a fresh
\* row to 1.00), and the second changed nothing
C15_Witness ==
    \E once \in {RoundTrip(ingredients, recipe_name)} :
        /\ pc = "ready"
        /\ \E i \in 1..Len(ingredients) :
              /\ ingredients[i].servings = << "1" >>
              /\ once.ingredients[i].servings = << "1", ".", "0", "0" >>
        /\ once.ingredients # ingredients
        /\ RoundTrip(once.ingredients, once.name) = once

============================================================================
